---- MODULE Spec2Model ----
(***************************************************************************)
(* Model of src/a_new_search_ltp_v1.py: the straddle monitor that writes   *)
(* option legs into the Trade_Terminal sheet (write_position), sums entry  *)
(* and live premiums (fetch_qk_values) and polls until the square-off time *)
(* (monitor_positions).                                                    *)
(*                                                                         *)
(* Lines 230-304 of the source follow the return statement of              *)
(* fetch_qk_values at the function's indentation: they are unreachable and *)
(* no action of this model executes them.  The stop-loss branch that runs  *)
(* is the one at lines 403-408, which only counts and logs.                *)
(***************************************************************************)
EXTENDS Integers, Sequences, FiniteSets, TLC

(***************************************************************************)
(* Bounds of the model.                                                    *)
(***************************************************************************)
ChainRows == 3      \* rows of an Option_Chain_Output column that are modelled
MaxRow == 5         \* rows of the Trade_Terminal sheet that are modelled
MaxWrites == 3      \* write_position calls in a run of SpecWriter
MinHour == 13       \* earliest hour the wall clock is sampled at
MaxHour == 16       \* latest hour the wall clock is sampled at

(***************************************************************************)
(* Program constants.                                                      *)
(***************************************************************************)
SQUARE_OFF_HOUR == 15
SQUARE_OFF_MINUTE == 29

(***************************************************************************)
(* Cell values as xlwings returns them: None for an empty cell, a number,  *)
(* or a string.  A string either parses as a number ("numstr") or does     *)
(* not ("text").                                                           *)
(***************************************************************************)
NoneVal == [t |-> "none", v |-> 0]
Num(n) == [t |-> "num", v |-> n]
NumStr(n) == [t |-> "numstr", v |-> n]
Text == [t |-> "text", v |-> 0]

\* isinstance(v, (int, float))
IsNumber(c) == c.t = "num"

\* float(x) succeeds on numbers and on strings that parse; it raises on None
\* and on any other string.
FloatRaises(c) == c.t \in {"none", "text"}
FloatOf(c) == c.v

Abs(x) == IF x < 0 THEN -x ELSE x

(***************************************************************************)
(* find_nearest_row (lines 115-120).  A column is the sequence of its      *)
(* cells from row 1; rows past the sequence are empty.                     *)
(***************************************************************************)
NotFound == [kind |-> "none", row |-> 0, value |-> 0]
Raised == [kind |-> "raise", row |-> 0, value |-> 0]
Found(i, x) == [kind |-> "row", row |-> i, value |-> x]

\* numeric_values: the (row, float(v)) pairs of the numeric cells, in row order
RECURSIVE NumericValuesFrom(_, _)
NumericValuesFrom(values, i) ==
    IF i > Len(values) THEN << >>
    ELSE IF IsNumber(values[i])
         THEN << Found(i, FloatOf(values[i])) >> \o NumericValuesFrom(values, i + 1)
         ELSE NumericValuesFrom(values, i + 1)

numeric_values(values) == NumericValuesFrom(values, 1)

\* faulty variant: a later element also replaces the best one on equal keys
KeyLessOrEqual(a, b, target) == Abs(a.value - target) <= Abs(b.value - target)
\* the comparison min() makes on the keys abs(x[1] - float(search_value)):
\* a later element replaces the best one only when its key is strictly smaller
KeyLess(a, b, target) == Abs(a.value - target) < Abs(b.value - target)

RECURSIVE MinFrom(_, _, _, _)
MinFrom(pairs, j, best, target) ==
    IF j > Len(pairs) THEN best
    ELSE MinFrom(pairs, j + 1,
                 IF KeyLess(pairs[j], best, target) THEN pairs[j] ELSE best,
                 target)

\* faulty variant: float(search_value) is evaluated before the emptiness test
find_nearest_row_eager(values, search_value) ==
    IF FloatRaises(search_value) THEN Raised
    ELSE IF numeric_values(values) = << >> THEN NotFound
    ELSE MinFrom(numeric_values(values), 2, numeric_values(values)[1],
                 FloatOf(search_value))

find_nearest_row(values, search_value) ==
    LET nv == numeric_values(values)
    IN  IF nv = << >> THEN NotFound
        ELSE IF FloatRaises(search_value) THEN Raised
        ELSE MinFrom(nv, 2, nv[1], FloatOf(search_value))

(***************************************************************************)
(* The two sheets.  Option_Chain_Output is its columns J (call premiums),  *)
(* V (put premiums) and P (strikes).  Trade_Terminal is a function from    *)
(* row to the cells the program touches: A (instrument), M (lot size),     *)
(* N (side), O (entry signal), Q (entry premium), K (live premium) and     *)
(* T (close signal).                                                       *)
(***************************************************************************)
EmptySymbol == [cp |-> "", strike |-> 0]
Header == [cp |-> "HDR", strike |-> 0]
EmptyRow == [A |-> EmptySymbol, M |-> 0, N |-> "", O |-> "", Q |-> NoneVal,
             K |-> NoneVal, T |-> ""]
HeaderRow == [EmptyRow EXCEPT !.A = Header]

\* inputs["lot_size"] = int(C2 or 1) (line 88); the model runs with the default
DefaultLotSize == 1

Max(S) == CHOOSE x \in S : \A y \in S : y <= x

\* faulty variant: the row below the first non-empty cell of column A
find_last_row_top(tt) ==
    LET used == {r \in DOMAIN tt : tt[r].A # EmptySymbol}
    IN  IF used = {} THEN 2
        ELSE (CHOOSE r \in used : \A y \in used : r <= y) + 1

\* find_last_row (lines 122-123): End(xlUp) from the bottom of column A stops
\* at the last non-empty cell, or at row 1 when the column is empty
find_last_row(tt) ==
    LET used == {r \in DOMAIN tt : tt[r].A # EmptySymbol}
    IN  (IF used = {} THEN 1 ELSE Max(used)) + 1

StrikeCol(option_type) == IF option_type = "CALL" THEN "J" ELSE "V"

Order(row, sym, option_type) ==
    [row |-> row, option_symbol |-> sym, lot_size |-> DefaultLotSize,
     buy_or_sell |-> "SELL", option_type |-> option_type,
     q_value |-> NoneVal, k_value |-> NoneVal]

NoOrder == Order(0, EmptySymbol, "")

Returned(outcome, order, tt) == [outcome |-> outcome, order |-> order, terminal |-> tt]

\* lines 154-172: the four cell writes and the returned leg
WriteRow(tt, chain, opt_row, option_type) ==
    LET strike_price == FloatOf(chain["P"][opt_row.row])
        sym == [cp |-> IF option_type = "CALL" THEN "C" ELSE "P",
                strike |-> strike_price]
        target_row == find_last_row(tt)
    IN  Returned("leg", Order(target_row, sym, option_type),
                 [tt EXCEPT ![target_row].A = sym,
                            ![target_row].M = DefaultLotSize,
                            ![target_row].N = "SELL",
                            ![target_row].O = "True_Market"])

\* faulty variant: the row is written before the strike cell is looked at
write_position_write_first(tt, chain, search_ltp, option_type) ==
    IF option_type \notin {"CALL", "PUT"} THEN Returned("none", NoOrder, tt)
    ELSE LET opt_row == find_nearest_row(chain[StrikeCol(option_type)], search_ltp)
         IN  IF opt_row.kind = "raise" THEN Returned("raise", NoOrder, tt)
             ELSE IF opt_row.kind = "none" THEN Returned("none", NoOrder, tt)
             ELSE IF chain["P"][opt_row.row].t = "none"
                  THEN Returned("none", NoOrder,
                                WriteRow(tt, chain, opt_row, option_type).terminal)
             ELSE IF chain["P"][opt_row.row].t = "text"
                  THEN Returned("raise", NoOrder, tt)
             ELSE WriteRow(tt, chain, opt_row, option_type)

\* write_position (lines 109-172)
write_position(tt, chain, search_ltp, option_type) ==
    IF option_type \notin {"CALL", "PUT"} THEN Returned("none", NoOrder, tt)
    ELSE LET opt_row == find_nearest_row(chain[StrikeCol(option_type)], search_ltp)
         IN  IF opt_row.kind = "raise" THEN Returned("raise", NoOrder, tt)
             ELSE IF opt_row.kind = "none" THEN Returned("none", NoOrder, tt)
             ELSE IF chain["P"][opt_row.row].t = "none"
                  THEN Returned("none", NoOrder, tt)
             \* int(strike_cell_value) raises on a string that is no number
             ELSE IF chain["P"][opt_row.row].t = "text"
                  THEN Returned("raise", NoOrder, tt)
             ELSE WriteRow(tt, chain, opt_row, option_type)

(***************************************************************************)
(* fetch_qk_values (lines 181-227).  The events of a call are logged as    *)
(* records: what was done and on which row.                                *)
(***************************************************************************)
Ev(e, row) == [e |-> e, row |-> row]

\* faulty variant: an entry premium observed by an earlier call is kept
EntryPremiumSticky(order, q_read) ==
    IF order.q_value.t = "num" /\ order.q_value.v # 0 THEN order.q_value
    ELSE IF q_read.t = "none" THEN NoneVal
    ELSE IF FloatRaises(q_read) THEN q_read
    ELSE Num(FloatOf(q_read))

\* lines 196-211: q_value starts as None on every call and the Q cell is polled
\* until a read gives something other than None or the timeout has elapsed.
\* q_read is what the polling ended with (None on timeout); the order's old
\* q_value is not consulted.  float() is applied when it succeeds (line 209),
\* otherwise the raw value is kept (line 211).
EntryPremium(order, q_read) ==
    IF q_read.t = "none" THEN NoneVal
    ELSE IF FloatRaises(q_read) THEN q_read
    ELSE Num(FloatOf(q_read))

\* lines 213-217: one read of the K cell; 0.0 when it is None, when float()
\* raises or when the read raises
LivePremium(k_read, failed) ==
    IF failed \/ FloatRaises(k_read) THEN 0 ELSE FloatOf(k_read)

\* x or 0.0 (lines 220-221): None and 0 give 0.0, anything else is kept
OrZero(c) == IF c.t = "none" \/ (c.t = "num" /\ c.v = 0) THEN Num(0) ELSE c

FetchResult(raised, orders, qt, kt, log) ==
    [raised |-> raised, orders |-> orders, q_total |-> qt, k_total |-> kt, log |-> log]

\* A pass through the loop suffers at most one store fault: the read of K8
\* raises, every read of one leg's Q cell raises until the timeout, or the read
\* of one leg's K cell raises.
NoFault == [kind |-> "none", leg |-> 0]
K8Fault == [kind |-> "k8", leg |-> 0]
FaultChoices(orders) ==
    {NoFault, K8Fault} \cup [kind : {"q", "k"}, leg : 1 .. Len(orders)]
QFails(fault, i) == fault.kind = "q" /\ fault.leg = i
KFails(fault, i) == fault.kind = "k" /\ fault.leg = i

\* the loop of lines 191-225 from leg i on.
\* q_total += order["q_value"] (line 223) raises TypeError on a string.
RECURSIVE FetchFrom(_, _, _, _, _, _, _)
FetchFrom(tt, orders, i, qt, kt, log, fault) ==
    IF i > Len(orders) THEN FetchResult(FALSE, orders, qt, kt, log \o << Ev("return", 0) >>)
    ELSE LET row == orders[i].row
             q_read == IF QFails(fault, i) THEN NoneVal ELSE tt[row].Q
             q_value == EntryPremium(orders[i], q_read)
             k_value == LivePremium(tt[row].K, KFails(fault, i))
             updated == [orders EXCEPT ![i].q_value = OrZero(q_value),
                                       ![i].k_value = OrZero(Num(k_value))]
             log2 == log \o << Ev("readQ", row), Ev("readK", row) >>
         IN  IF updated[i].q_value.t = "text"
             THEN FetchResult(TRUE, updated, qt, kt, log2 \o << Ev("raise", row) >>)
             ELSE FetchFrom(tt, updated, i + 1, qt + updated[i].q_value.v,
                            kt + updated[i].k_value.v, log2, fault)

\* faulty variant: the orders come back in the opposite order
fetch_qk_values_reversed(tt, orders, fault) ==
    LET f == FetchFrom(tt, orders, 1, 0, 0, << Ev("fetch", 0) >>, fault)
    IN  [f EXCEPT !.orders = [i \in 1 .. Len(orders) |-> f.orders[Len(orders) + 1 - i]]]
fetch_qk_values(tt, orders, fault) ==
    FetchFrom(tt, orders, 1, 0, 0, << Ev("fetch", 0) >>, fault)

(***************************************************************************)
(* State.                                                                  *)
(***************************************************************************)
VARIABLES
    option_chain_output,  \* sheet Option_Chain_Output: column -> cells from row 1
    trade_terminal,       \* sheet Trade_Terminal: row -> cells
    inputs,               \* read_inputs(): search_call_ltp, search_put_ltp
    executed_orders,      \* the list of leg dicts
    pc,                   \* where the program is
    now,                  \* datetime.now() as last read by the loop
    q_total,              \* monitor_positions' local q_total
    k_total,              \* monitor_positions' local k_total
    stoploss_value,       \* monitor_positions' local, in thousandths
    tickLog,              \* events of the latest pass through monitor_positions
    closeWrites,          \* row -> number of writes made to its T cell
    last_write,           \* outcome of the latest write_position call
    loc_values,           \* SpecLocate: the column searched
    loc_target,           \* SpecLocate: the value searched for
    loc_result,           \* SpecLocate: what find_nearest_row returned
    poll                  \* SpecPoll: the frame of the fetch_qk_values call

vars == << option_chain_output, trade_terminal, inputs, executed_orders, pc, now,
           q_total, k_total, stoploss_value, tickLog, closeWrites, last_write,
           loc_values, loc_target, loc_result, poll >>

storeVars == << option_chain_output, trade_terminal >>
locVars == << loc_values, loc_target, loc_result >>
monitorVars == << now, q_total, k_total, stoploss_value, tickLog, closeWrites >>

Rows == 1 .. MaxRow
\* the times the clock is sampled at: the minute before square-off in the
\* first hour, in the square-off hour and in the last hour, and the square-off
\* minute itself
Clock ==
    {[hour |-> h, minute |-> SQUARE_OFF_MINUTE - 1] :
        h \in {MinHour, SQUARE_OFF_HOUR, MaxHour}}
    \cup {[hour |-> SQUARE_OFF_HOUR, minute |-> SQUARE_OFF_MINUTE]}
Before(a, b) == a.hour < b.hour \/ (a.hour = b.hour /\ a.minute <= b.minute)

\* stoploss_value = q_total * 1.001 (lines 373, 395), kept in thousandths
STOPLOSS_MILLI == 1001
Stoploss(qt) == qt * STOPLOSS_MILLI
\* faulty variant: no breach is found against a stop-loss of 0
BreachWhenSet(kt, sl) == sl > 0 /\ kt * 1000 > sl
\* k_total > stoploss_value (line 403)
Breach(kt, sl) == kt * 1000 > sl

\* values the terminal puts into the Q and K cells of the row of the i-th
\* leg: every kind of value for the first leg, fewer for the later ones
QVals(i) == IF i = 1 THEN {NoneVal, Num(2), Num(3), Text} ELSE {NoneVal, Num(2)}
KVals(i) == IF i = 1 THEN {NoneVal, Num(1), Num(3), Text} ELSE {NoneVal, Num(3)}
LtpInputs == {NoneVal, Num(2), Num(3)}

BlankTerminal(h) == [r \in Rows |-> IF r <= h THEN HeaderRow ELSE EmptyRow]
\* last_write: the arguments and the outcome of the latest write_position call
NoWrite == [calls |-> 0, option_type |-> "", search_ltp |-> NoneVal,
            outcome |-> "", row |-> 0]

\* a column of ChainRows cells: a, b, then empty cells
Col(a, b) == [i \in 1 .. ChainRows |-> IF i = 1 THEN a ELSE IF i = 2 THEN b ELSE NoneVal]

\* the option chains of the runs of Spec: premiums 1 and 3 on the call side, the
\* same or nothing numeric on the put side, the strike cell of the first row empty
MainChains ==
    [J : {Col(Num(1), Num(3))},
     V : {Col(Num(1), Num(3)), Col(NoneVal, Text)},
     P : {Col(NoneVal, Num(200))}]

Pending == [kind |-> "pending", row |-> 0, value |-> 0]
LocIdle ==
    /\ loc_values = << >>
    /\ loc_target = NoneVal
    /\ loc_result = Pending

\* poll: the order the for loop of fetch_qk_values is at, its local q_value,
\* the milliseconds since start (line 197), and the number of calls made
NoPoll == [order |-> 0, q_value |-> NoneVal, elapsed |-> 0, calls |-> 0]

\* write_position leaves column T alone (lines 157-160) and find_last_row looks
\* at column A only: the first row to be written may still carry a close marker
\* from an earlier session
Terminals ==
    {BlankTerminal(1),
     [BlankTerminal(1) EXCEPT ![find_last_row(BlankTerminal(1))].T = "True_Market"]}

Init ==
    /\ option_chain_output \in MainChains
    /\ trade_terminal \in Terminals
    /\ inputs \in [search_call_ltp : LtpInputs, search_put_ltp : LtpInputs]
    /\ executed_orders = << >>
    /\ pc = "call"
    /\ now = [hour |-> MinHour, minute |-> SQUARE_OFF_MINUTE - 1]
    /\ q_total = 0
    /\ k_total = 0
    /\ stoploss_value = 0
    /\ tickLog = << >>
    /\ closeWrites = [r \in Rows |-> 0]
    /\ last_write = NoWrite
    /\ LocIdle
    /\ poll = NoPoll

(***************************************************************************)
(* __main__ (lines 434-459).                                               *)
(***************************************************************************)
\* one write_position call of __main__ and the append that follows it; an
\* exception leaves through the handler of line 460
Execute(option_type, search_ltp, next) ==
    LET r == write_position(trade_terminal, option_chain_output, search_ltp, option_type)
    IN  /\ find_last_row(trade_terminal) <= MaxRow
        /\ trade_terminal' = r.terminal
        /\ executed_orders' = IF r.outcome = "leg"
                              THEN Append(executed_orders, r.order)
                              ELSE executed_orders
        /\ last_write' = [calls |-> last_write.calls + 1, option_type |-> option_type,
                          search_ltp |-> search_ltp, outcome |-> r.outcome,
                          row |-> r.order.row]
        /\ pc' = IF r.outcome = "raise" THEN "crashed" ELSE next
        /\ UNCHANGED << option_chain_output, inputs, monitorVars, locVars, poll >>

\* lines 437-443
ExecuteCall ==
    /\ pc = "call"
    /\ Execute("CALL", inputs.search_call_ltp, "put")

\* lines 446-452
ExecutePut ==
    /\ pc = "put"
    /\ Execute("PUT", inputs.search_put_ltp, "dispatch")

\* lines 454-459: entry_total = search_call_ltp + search_put_ltp raises
\* TypeError when either input cell was empty
Dispatch ==
    /\ pc = "dispatch"
    /\ pc' = IF executed_orders = << >> THEN "exited"
             ELSE IF inputs.search_call_ltp.t = "none"
                     \/ inputs.search_put_ltp.t = "none" THEN "crashed"
             ELSE "monitor_init"
    /\ UNCHANGED << storeVars, inputs, executed_orders, monitorVars, last_write, locVars, poll >>

(***************************************************************************)
(* monitor_positions (lines 362-415).                                      *)
(***************************************************************************)
Legs == 1 .. Len(executed_orders)

\* faulty variant: the handler lets the loop go on
OnExceptionResume == "monitoring"
\* lines 412-415: the except clause encloses the while loop; after logging the
\* function ends, without square-off
OnException == "failed"

\* lines 368-376: the first read of K8 and the first totals, inside the try
\* block; any exception goes to the handler of line 412
MonitorInit ==
    /\ pc = "monitor_init"
    /\ \E fault \in FaultChoices(executed_orders) :
         LET f == fetch_qk_values(trade_terminal, executed_orders, fault)
         IN  IF fault = K8Fault
             THEN /\ pc' = OnException
                  /\ tickLog' = << Ev("readK8", 8), Ev("raise", 8) >>
                  /\ UNCHANGED << executed_orders, q_total, k_total, stoploss_value >>
             ELSE /\ tickLog' = << Ev("readK8", 8) >> \o f.log
                  /\ executed_orders' = f.orders
                  /\ IF f.raised
                     THEN /\ pc' = OnException
                          /\ UNCHANGED << q_total, k_total, stoploss_value >>
                     ELSE /\ pc' = "monitoring"
                          /\ q_total' = f.q_total
                          /\ k_total' = f.k_total
                          /\ stoploss_value' = Stoploss(f.q_total)
    /\ UNCHANGED << storeVars, inputs, now, closeWrites, last_write, locVars, poll >>

\* line 380: now.hour == SQUARE_OFF_HOUR and now.minute >= SQUARE_OFF_MINUTE
SquareOffDue(t) == t.hour = SQUARE_OFF_HOUR /\ t.minute >= SQUARE_OFF_MINUTE

\* faulty variant: every visit of the square-off loop writes the first order's row
SquareOffRowFirst(orders, n) == orders[1].row
\* line 383: the row of the n-th order visited by the square-off loop
SquareOffRow(orders, n) == orders[n].row

\* lines 382-385: the T cell of the first n orders' rows is written
RECURSIVE MarkClosed(_, _, _)
MarkClosed(tt, orders, n) ==
    IF n = 0 THEN tt
    ELSE [MarkClosed(tt, orders, n - 1) EXCEPT ![SquareOffRow(orders, n)].T = "True_Market"]

RECURSIVE CountClosed(_, _, _)
CountClosed(cw, orders, n) ==
    IF n = 0 THEN cw
    ELSE [CountClosed(cw, orders, n - 1) EXCEPT ![SquareOffRow(orders, n)] = @ + 1]

RECURSIVE CloseEvents(_, _)
CloseEvents(orders, n) ==
    IF n = 0 THEN << >>
    ELSE Append(CloseEvents(orders, n - 1), Ev("closeT", SquareOffRow(orders, n)))

\* faulty variant: the last of several orders is not visited
SquareOffSpanShort(orders) == IF Len(orders) > 1 THEN Len(orders) - 1 ELSE Len(orders)
\* the number of orders the square-off loop (line 382) visits
SquareOffSpan(orders) == Len(orders)

\* lines 379-386: the clock is read, the square-off test succeeds, every order's
\* T cell is written and the loop is left.  wFail = n > 0: the n-th write raises
\* and the handler of line 412 ends the function.
TickSquareOff ==
    /\ pc = "monitoring"
    /\ \E t \in Clock, wFail \in 0 .. Len(executed_orders) :
         LET done == IF wFail = 0 THEN SquareOffSpan(executed_orders) ELSE wFail - 1
         IN  /\ Before(now, t)
             /\ SquareOffDue(t)
             /\ now' = t
             /\ trade_terminal' = MarkClosed(trade_terminal, executed_orders, done)
             /\ closeWrites' = CountClosed(closeWrites, executed_orders, done)
             /\ tickLog' = << Ev("time", 0), Ev("squareoff", 0) >>
                           \o CloseEvents(executed_orders, done)
                           \o << Ev(IF wFail = 0 THEN "break" ELSE "raise", 0) >>
             /\ pc' = IF wFail = 0 THEN "squared_off" ELSE OnException
    /\ UNCHANGED << option_chain_output, inputs, executed_orders, q_total, k_total,
                    stoploss_value, last_write, locVars, poll >>

\* faulty variant: a stop-loss computed on an earlier pass is kept
RecomputedStoplossPinned(held, qt) == IF held # 0 THEN held ELSE Stoploss(qt)
\* line 395: stoploss_value is assigned anew from this pass's q_total, whatever
\* it held before
RecomputedStoploss(held, qt) == Stoploss(qt)

\* faulty variant: the stop-loss test is logged before the totals are fetched
PassEventsTriggerFirst(fetchLog, breached) ==
    << Ev("time", 0), Ev("trigger", 0) >>
    \o (IF breached THEN << Ev("breach", 0) >> ELSE << >>)
    \o << Ev("readK8", 8) >> \o fetchLog \o << Ev("sleep", 0) >>
\* lines 379-410, the events of a pass that reaches its end: the clock and the
\* square-off test, the read of K8, the fetch, the stop-loss test, the branch of
\* line 403 when taken, the sleep
PassEvents(fetchLog, breached) ==
    << Ev("time", 0), Ev("readK8", 8) >> \o fetchLog \o << Ev("trigger", 0) >>
    \o (IF breached THEN << Ev("breach", 0) >> ELSE << >>)
    \o << Ev("sleep", 0) >>

\* lines 379-410 when the square-off test fails: K8 is read, the totals are
\* fetched, the stop-loss is recomputed and compared; the branch of line 403
\* counts and logs, nothing else (adjustment_count is only ever logged and is
\* not kept; the "breach" event stands for the branch being taken)
TickEvaluate ==
    /\ pc = "monitoring"
    /\ \E t \in Clock, fault \in FaultChoices(executed_orders) :
         LET f == fetch_qk_values(trade_terminal, executed_orders, fault)
             head == << Ev("time", 0), Ev("readK8", 8) >>
             sl == RecomputedStoploss(stoploss_value, f.q_total)
         IN  /\ Before(now, t)
             /\ ~SquareOffDue(t)
             /\ now' = t
             /\ IF fault = K8Fault
                THEN /\ pc' = OnException
                     /\ tickLog' = head \o << Ev("raise", 8) >>
                     /\ UNCHANGED << executed_orders, q_total, k_total, stoploss_value >>
                ELSE /\ executed_orders' = f.orders
                     /\ IF f.raised
                        THEN /\ pc' = OnException
                             /\ tickLog' = head \o f.log
                             /\ UNCHANGED << q_total, k_total, stoploss_value >>
                        ELSE /\ pc' = "monitoring"
                             /\ q_total' = f.q_total
                             /\ k_total' = f.k_total
                             /\ stoploss_value' = sl
                             /\ tickLog' = PassEvents(f.log, Breach(f.k_total, sl))
    /\ UNCHANGED << storeVars, inputs, closeWrites, last_write, locVars, poll >>

\* the terminal (outside the program) fills or changes the Q or K cell of a
\* leg's row
EnvUpdate ==
    /\ pc \in {"monitor_init", "monitoring"}
    /\ \E i \in Legs :
         \/ \E v \in QVals(i) : trade_terminal' = [trade_terminal EXCEPT ![executed_orders[i].row].Q = v]
         \/ \E v \in KVals(i) : trade_terminal' = [trade_terminal EXCEPT ![executed_orders[i].row].K = v]
    /\ UNCHANGED << option_chain_output, inputs, executed_orders, pc, monitorVars,
                    last_write, locVars, poll >>

Next ==
    \/ ExecuteCall
    \/ ExecutePut
    \/ Dispatch
    \/ MonitorInit
    \/ TickSquareOff
    \/ TickEvaluate
    \/ EnvUpdate

Spec == Init /\ [][Next]_vars

(***************************************************************************)
(* SpecLocate: find_nearest_row applied to every column of ChainRows cells *)
(* and every target drawn from the values below.                           *)
(***************************************************************************)
LocCells == {NoneVal, Text, NumStr(2), Num(1), Num(3), Num(4)}
LocTargets == {NoneVal, Text, NumStr(2), Num(2), Num(3)}

MainIdle ==
    /\ option_chain_output = [J |-> Col(NoneVal, NoneVal), V |-> Col(NoneVal, NoneVal),
                              P |-> Col(NoneVal, NoneVal)]
    /\ trade_terminal = BlankTerminal(0)
    /\ inputs = [search_call_ltp |-> NoneVal, search_put_ltp |-> NoneVal]
    /\ executed_orders = << >>
    /\ pc = "idle"
    /\ now = [hour |-> MinHour, minute |-> SQUARE_OFF_MINUTE - 1]
    /\ q_total = 0
    /\ k_total = 0
    /\ stoploss_value = 0
    /\ tickLog = << >>
    /\ closeWrites = [r \in Rows |-> 0]
    /\ last_write = NoWrite
    /\ poll = NoPoll

InitLocate ==
    /\ MainIdle
    /\ loc_values \in [1 .. ChainRows -> LocCells]
    /\ loc_target \in LocTargets
    /\ loc_result = Pending

Locate ==
    /\ loc_result = Pending
    /\ loc_result' = find_nearest_row(loc_values, loc_target)
    /\ UNCHANGED << storeVars, inputs, executed_orders, pc, monitorVars, last_write,
                    loc_values, loc_target, poll >>

NextLocate == Locate

SpecLocate == InitLocate /\ [][NextLocate]_vars

(***************************************************************************)
(* SpecWriter: up to MaxWrites calls of write_position, of any option type *)
(* and target, on a terminal whose column A starts with any of rows 1 and  *)
(* 2 occupied.                                                             *)
(***************************************************************************)
WriterChains ==
    [J : {Col(Num(1), Num(3)), Col(NoneVal, Text)},
     V : {Col(Num(1), Num(3)), Col(NoneVal, Text)},
     P : {Col(NoneVal, Num(200)), Col(Num(100), Text)}]

WriterTerminals ==
    {[r \in Rows |-> IF r \in used THEN HeaderRow ELSE EmptyRow] : used \in SUBSET {1, 2}}

InitWriter ==
    /\ option_chain_output \in WriterChains
    /\ trade_terminal \in WriterTerminals
    /\ inputs = [search_call_ltp |-> NoneVal, search_put_ltp |-> NoneVal]
    /\ executed_orders = << >>
    /\ pc = "writer"
    /\ now = [hour |-> MinHour, minute |-> SQUARE_OFF_MINUTE - 1]
    /\ q_total = 0
    /\ k_total = 0
    /\ stoploss_value = 0
    /\ tickLog = << >>
    /\ closeWrites = [r \in Rows |-> 0]
    /\ last_write = NoWrite
    /\ LocIdle
    /\ poll = NoPoll

WriterCall ==
    /\ pc = "writer"
    /\ last_write.calls < MaxWrites
    /\ \E option_type \in {"CALL", "PUT", "FUT"}, search_ltp \in LtpInputs :
         Execute(option_type, search_ltp, "writer")

NextWriter == WriterCall

SpecWriter == InitWriter /\ [][NextWriter]_vars

(***************************************************************************)
(* SpecPoll: up to MaxCalls calls of fetch_qk_values on two orders, one    *)
(* step per iteration of the waiting loop of lines 199-211, while the      *)
(* terminal fills, empties or changes the orders' Q cells.  Time is        *)
(* counted in milliseconds: a sleep lasts POLL_SLEEP_MS, a read no time.   *)
(***************************************************************************)
MaxCalls == 2
\* per_order_timeout = 5.0 (line 181) and time.sleep(0.2) (line 205)
PER_ORDER_TIMEOUT_MS == 5000
POLL_SLEEP_MS == 200

\* faulty variant: the wait goes on for twice the timeout
WaitOverLate(q_value, elapsed) ==
    ~(q_value.t = "none" /\ elapsed < PER_ORDER_TIMEOUT_MS + PER_ORDER_TIMEOUT_MS)
\* line 199, negated: the while loop is left when q_value is no longer None or
\* per_order_timeout has elapsed
WaitOver(q_value, elapsed) ==
    ~(q_value.t = "none" /\ elapsed < PER_ORDER_TIMEOUT_MS)

\* the two legs of __main__, written by write_position for the target 3
PollChain == [J |-> Col(Num(1), Num(3)), V |-> Col(Num(1), Num(3)),
              P |-> Col(NoneVal, Num(200))]
PollCallLeg == write_position(BlankTerminal(1), PollChain, Num(3), "CALL")
PollPutLeg == write_position(PollCallLeg.terminal, PollChain, Num(3), "PUT")

InitPoll ==
    /\ option_chain_output = PollChain
    /\ executed_orders = << PollCallLeg.order, PollPutLeg.order >>
    /\ \E q1 \in QVals(1), q2 \in QVals(2) :
         trade_terminal = [PollPutLeg.terminal EXCEPT ![PollCallLeg.order.row].Q = q1,
                                                      ![PollPutLeg.order.row].Q = q2]
    /\ inputs = [search_call_ltp |-> Num(3), search_put_ltp |-> Num(3)]
    /\ pc = "fetch_idle"
    /\ now = [hour |-> MinHour, minute |-> SQUARE_OFF_MINUTE - 1]
    /\ q_total = 0
    /\ k_total = 0
    /\ stoploss_value = 0
    /\ tickLog = << >>
    /\ closeWrites = [r \in Rows |-> 0]
    /\ last_write = NoWrite
    /\ LocIdle
    /\ poll = NoPoll

pollFrame == << storeVars, inputs, now, stoploss_value, closeWrites, last_write, locVars >>

\* lines 188-191: the call starts with both totals at 0 and the first order
PollCall ==
    /\ pc \in {"fetch_idle", "fetch_returned"}
    /\ poll.calls < MaxCalls
    /\ pc' = "fetch_for"
    /\ poll' = [order |-> 1, q_value |-> NoneVal, elapsed |-> 0, calls |-> poll.calls + 1]
    /\ q_total' = 0
    /\ k_total' = 0
    /\ tickLog' = << Ev("fetch", 0) >>
    /\ UNCHANGED << executed_orders, pollFrame >>

\* lines 191-197: the next order; q_value = None, start = time.time()
PollNextOrder ==
    /\ pc = "fetch_for"
    /\ poll.order <= Len(executed_orders)
    /\ pc' = "fetch_while"
    /\ poll' = [poll EXCEPT !.q_value = NoneVal, !.elapsed = 0]
    /\ UNCHANGED << executed_orders, q_total, k_total, tickLog, pollFrame >>

\* lines 199-211: one iteration of the while loop.  The read raises or gives
\* None: sleep; otherwise q_value takes float(q_val), or q_val itself
PollIterate ==
    /\ pc = "fetch_while"
    /\ ~WaitOver(poll.q_value, poll.elapsed)
    /\ \E failed \in BOOLEAN :
         LET order == executed_orders[poll.order]
             q_val == IF failed THEN NoneVal ELSE trade_terminal[order.row].Q
         IN  /\ poll' = IF q_val.t = "none"
                        THEN [poll EXCEPT !.elapsed = @ + POLL_SLEEP_MS]
                        ELSE [poll EXCEPT !.q_value = EntryPremium(order, q_val)]
             /\ tickLog' = Append(tickLog, Ev("readQ", order.row))
    /\ UNCHANGED << executed_orders, pc, q_total, k_total, pollFrame >>

\* lines 212-225: the loop is left; K is read once, the order's fields are set
\* and added to the totals (line 223 raises on a string)
PollLeave ==
    /\ pc = "fetch_while"
    /\ WaitOver(poll.q_value, poll.elapsed)
    /\ \E failed \in BOOLEAN :
         LET order == executed_orders[poll.order]
             k_value == LivePremium(trade_terminal[order.row].K, failed)
             updated == [executed_orders EXCEPT ![poll.order].q_value = OrZero(poll.q_value),
                                                ![poll.order].k_value = OrZero(Num(k_value))]
         IN  /\ executed_orders' = updated
             /\ IF updated[poll.order].q_value.t = "text"
                THEN /\ pc' = "fetch_raised"
                     /\ tickLog' = tickLog \o << Ev("readK", order.row), Ev("raise", order.row) >>
                     /\ UNCHANGED << q_total, k_total, poll >>
                ELSE /\ pc' = "fetch_for"
                     /\ tickLog' = Append(tickLog, Ev("readK", order.row))
                     /\ q_total' = q_total + updated[poll.order].q_value.v
                     /\ k_total' = k_total + updated[poll.order].k_value.v
                     /\ poll' = [poll EXCEPT !.order = @ + 1]
    /\ UNCHANGED pollFrame

\* line 227: the for loop is exhausted, the totals are returned
PollReturn ==
    /\ pc = "fetch_for"
    /\ poll.order > Len(executed_orders)
    /\ pc' = "fetch_returned"
    /\ tickLog' = Append(tickLog, Ev("return", 0))
    /\ UNCHANGED << executed_orders, q_total, k_total, poll, pollFrame >>

\* the terminal fills, empties or changes an order's Q cell, during a wait or
\* between two calls
PollEnv ==
    /\ pc \in {"fetch_while", "fetch_returned"}
    /\ \E i \in Legs :
         \E v \in QVals(i) :
            trade_terminal' = [trade_terminal EXCEPT ![executed_orders[i].row].Q = v]
    /\ UNCHANGED << option_chain_output, inputs, executed_orders, pc, monitorVars,
                    last_write, locVars, poll >>

PollProgram == PollCall \/ PollNextOrder \/ PollIterate \/ PollLeave \/ PollReturn

NextPoll ==
    \/ PollCall
    \/ PollNextOrder
    \/ PollIterate
    \/ PollLeave
    \/ PollReturn
    \/ PollEnv

\* the interpreter keeps running the call: a step of the program that can be
\* taken is taken; the terminal owes nothing
SpecPoll == InitPoll /\ [][NextPoll]_vars /\ WF_vars(PollProgram)

(***************************************************************************)
(* Claims about find_nearest_row, checked under SpecLocate.                *)
(***************************************************************************)
NumericRows(values) == {i \in 1 .. Len(values) : IsNumber(values[i])}
Dist(values, i, target) == Abs(values[i].v - target.v)

\* C6: for a column with at least one numeric cell and a numeric target,
\* find_nearest_row returns a row of a numeric cell, with that cell's value,
\* whose distance to the target is minimal over the numeric cells, and every
\* numeric cell in an earlier row is strictly farther from the target; a row
\* holding None or a string is never returned.
C6_NearestFirst ==
    (loc_result # Pending /\ NumericRows(loc_values) # {} /\ IsNumber(loc_target))
    => /\ loc_result.kind = "row"
       /\ loc_result.row \in NumericRows(loc_values)
       /\ loc_result.value = loc_values[loc_result.row].v
       /\ \A j \in NumericRows(loc_values) :
            /\ Dist(loc_values, loc_result.row, loc_target) <= Dist(loc_values, j, loc_target)
            /\ j < loc_result.row
               => Dist(loc_values, loc_result.row, loc_target) < Dist(loc_values, j, loc_target)

\* C6 witness: a tie (1 and 3 around the target 2) below a string cell; the
\* earlier of the two tied rows was returned
C6_Witness ==
    /\ loc_values = << NumStr(2), Num(1), Num(3) >>
    /\ loc_target = Num(2)
    /\ loc_result = Found(2, 1)

\* C7: on a column without any numeric cell find_nearest_row returns None,
\* whatever the target is (None and strings included); it does not raise.
C7_EmptyGivesNone ==
    (loc_result # Pending /\ NumericRows(loc_values) = {}) => loc_result = NotFound

\* C7 witness: no numeric cell, an unset target, None returned
C7_Witness ==
    /\ NumericRows(loc_values) = {}
    /\ \E i \in 1 .. Len(loc_values) : loc_values[i] # NoneVal
    /\ loc_target = NoneVal
    /\ loc_result = NotFound

(***************************************************************************)
(* Claims about write_position, checked under SpecWriter.                  *)
(***************************************************************************)
\* a step that is a write_position call
WriteCalled == last_write'.calls = last_write.calls + 1
WroteLeg == WriteCalled /\ last_write'.outcome = "leg"

LegRows == {executed_orders[i].row : i \in 1 .. Len(executed_orders)}

\* C8: a write_position call that returns a leg writes A, M, N and O of one
\* row; column A of that row was empty before the call and every row whose
\* column A was occupied lies above it; no other row changes (so no cell of a
\* leg written earlier changes), and no two returned legs share a row.
C8_AppendOnly ==
    /\ [](\A i, j \in 1 .. Len(executed_orders) :
            executed_orders[i].row = executed_orders[j].row => i = j)
    /\ [][WroteLeg =>
            LET r == last_write'.row
            IN  /\ r \in Rows
                /\ trade_terminal[r].A = EmptySymbol
                /\ \A o \in Rows : trade_terminal[o].A # EmptySymbol => o < r
                /\ r \notin LegRows
                /\ trade_terminal'[r].A # EmptySymbol
                /\ trade_terminal'[r].M = DefaultLotSize
                /\ trade_terminal'[r].N = "SELL"
                /\ trade_terminal'[r].O = "True_Market"
                /\ trade_terminal'[r].Q = trade_terminal[r].Q
                /\ trade_terminal'[r].K = trade_terminal[r].K
                /\ trade_terminal'[r].T = trade_terminal[r].T
                /\ \A o \in Rows \ {r} : trade_terminal'[o] = trade_terminal[o]
                /\ executed_orders' = Append(executed_orders, executed_orders'[Len(executed_orders')])
                /\ executed_orders'[Len(executed_orders')].row = r
         ]_vars

\* C8 witness: three legs returned one after the other on a terminal whose
\* column A began with row 1 empty and row 2 occupied
C8_Witness ==
    /\ Len(executed_orders) = 3
    /\ trade_terminal[1].A = EmptySymbol
    /\ trade_terminal[2].A = Header
    /\ LegRows = {3, 4, 5}

\* the call of this step found no numeric candidate in the column of its
\* option type, or found a row whose strike cell (column P) is empty
LocatorFailsOrStrikeEmpty(option_type, search_ltp) ==
    /\ option_type \in {"CALL", "PUT"}
    /\ LET col == option_chain_output[StrikeCol(option_type)]
           opt_row == find_nearest_row(col, search_ltp)
       IN  \/ NumericRows(col) = {}
           \/ opt_row.kind = "row" /\ option_chain_output["P"][opt_row.row] = NoneVal

\* C9: when the column of the requested option type holds no numeric
\* candidate, or the strike cell at the located row is empty, write_position
\* returns None without raising and changes no cell of either sheet, nor the
\* list of legs.
C9_NotFoundNoWrite ==
    [][(WriteCalled
        /\ LocatorFailsOrStrikeEmpty(last_write'.option_type, last_write'.search_ltp))
       => /\ last_write'.outcome = "none"
          /\ trade_terminal' = trade_terminal
          /\ option_chain_output' = option_chain_output
          /\ executed_orders' = executed_orders
      ]_vars

\* C9 witness: after a leg was written, a CALL search located row 1, found its
\* strike cell empty and returned None
C9_Witness ==
    /\ Len(executed_orders) >= 1
    /\ last_write.outcome = "none"
    /\ last_write.option_type = "CALL"
    /\ find_nearest_row(option_chain_output["J"], last_write.search_ltp).kind = "row"
    /\ option_chain_output["P"][find_nearest_row(option_chain_output["J"],
                                                 last_write.search_ltp).row] = NoneVal

\* C9 witness, second case: a PUT search on a column without numeric cells
C9_WitnessNoCandidate ==
    /\ Len(executed_orders) >= 1
    /\ last_write.outcome = "none"
    /\ last_write.option_type = "PUT"
    /\ NumericRows(option_chain_output["V"]) = {}

(***************************************************************************)
(* Claims about monitor_positions and fetch_qk_values, checked under Spec. *)
(***************************************************************************)
\* the Q and K cells are the terminal's: a step that leaves them alone and
\* changes something else is a step of the program
CellsKept == \A r \in Rows : /\ trade_terminal'[r].Q = trade_terminal[r].Q
                             /\ trade_terminal'[r].K = trade_terminal[r].K

\* a pass through the loop of monitor_positions (lines 378-410)
TickStep == pc = "monitoring" /\ CellsKept

\* a step in which a call of fetch_qk_values returned to monitor_positions
FetchReturned == pc \in {"monitor_init", "monitoring"} /\ pc' = "monitoring" /\ CellsKept

HasEvent(log, e) == \E n \in 1 .. Len(log) : log[n].e = e
EventCount(log, e, row) == Cardinality({n \in 1 .. Len(log) : log[n].e = e /\ log[n].row = row})

\* the band and the cutoff hour of the early-exit test (line 282)
EARLY_EXIT_LOW == 1
EARLY_EXIT_HIGH == 5
EARLY_EXIT_HOUR == 14

\* the clock reads the square-off time or a later time of the day
SquareOffDueAtOrAfter(t) ==
    t.hour > SQUARE_OFF_HOUR
    \/ (t.hour = SQUARE_OFF_HOUR /\ t.minute >= SQUARE_OFF_MINUTE)

\* C1: on every pass through the loop at which the clock reads the square-off
\* time or later (hour 16 included), the square-off branch is taken before
\* anything is read: no read of K8, Q or K is made, the loop is left, and when
\* the branch completes every order's row carries the close marker.
C1_SquareOffAtOrAfter ==
    [][(TickStep /\ SquareOffDueAtOrAfter(now'))
       => /\ HasEvent(tickLog', "squareoff")
          /\ ~HasEvent(tickLog', "readK8")
          /\ ~HasEvent(tickLog', "readQ")
          /\ ~HasEvent(tickLog', "readK")
          /\ pc' \in {"squared_off", "failed"}
          /\ pc' = "squared_off"
             => \A i \in Legs : trade_terminal'[executed_orders[i].row].T = "True_Market"
      ]_vars

\* the orders with the largest live premium after this step
MaxLiveLegs ==
    {i \in 1 .. Len(executed_orders') :
        \A j \in 1 .. Len(executed_orders') :
            executed_orders'[j].k_value.v <= executed_orders'[i].k_value.v}

Opposite(option_type) == IF option_type = "CALL" THEN "PUT" ELSE "CALL"

BreachTick == TickStep /\ pc' = "monitoring" /\ Breach(k_total', stoploss_value')

\* C2: on a pass where live_total > entry_total x 1.001, the same pass writes
\* the close marker to the row of an order with the largest live premium,
\* calls write_position for the opposite option type with that premium as
\* target, appends a returned leg, and leaves the stop-loss at 1.001 x the
\* entry total.
C2_BreachClosesAndReplaces ==
    [][BreachTick
       => \E i \in MaxLiveLegs :
            /\ i <= Len(executed_orders)
            /\ trade_terminal'[executed_orders[i].row].T = "True_Market"
            /\ closeWrites'[executed_orders[i].row] = closeWrites[executed_orders[i].row] + 1
            /\ last_write'.calls = last_write.calls + 1
            /\ last_write'.option_type = Opposite(executed_orders[i].option_type)
            /\ last_write'.search_ltp = executed_orders'[i].k_value
            /\ last_write'.outcome = "leg"
               => Len(executed_orders') = Len(executed_orders) + 1
            /\ stoploss_value' = Stoploss(q_total')
      ]_vars

\* C3: in a run that ends in square-off every order's row has received the
\* close marker exactly once and no other row has received one; no row ever
\* receives it twice; and once the square-off branch has completed nothing is
\* read, evaluated or written any more.
C3_SquareOffOnceThenHalt ==
    /\ [](\A r \in Rows : closeWrites[r] <= 1)
    /\ [](pc = "squared_off"
          => \A r \in Rows :
               IF r \in LegRows
               THEN closeWrites[r] = 1 /\ trade_terminal[r].T = "True_Market"
               ELSE closeWrites[r] = 0 /\ trade_terminal[r].T = "")
    /\ [][pc = "squared_off"
          => /\ pc' = "squared_off"
             /\ tickLog' = tickLog
             /\ trade_terminal' = trade_terminal
             /\ closeWrites' = closeWrites
             /\ executed_orders' = executed_orders]_vars

\* C3 witness: square-off completed with two legs, each closed once
C3_Witness ==
    /\ pc = "squared_off"
    /\ Len(executed_orders) = 2
    /\ \A r \in LegRows : closeWrites[r] = 1
    /\ HasEvent(tickLog, "break")

\* some order's live premium lies in the early-exit band and the hour read in
\* this step is before the cutoff
InBand(order) == /\ EARLY_EXIT_LOW <= order.k_value.v
                 /\ order.k_value.v <= EARLY_EXIT_HIGH
DistressHolds ==
    /\ now'.hour < EARLY_EXIT_HOUR
    /\ \E i \in 1 .. Len(executed_orders') : InBand(executed_orders'[i])

\* C10: on a pass where the premium breach and the distress band both hold,
\* the breach adjustment alone runs: the close marker is written to the row of
\* an order with the largest live premium and to no other row.
C10_BreachBeforeBand ==
    [][(BreachTick /\ DistressHolds)
       => \E i \in MaxLiveLegs :
            /\ trade_terminal'[executed_orders'[i].row].T = "True_Market"
            /\ \A r \in Rows \ {executed_orders'[i].row} :
                 trade_terminal'[r].T = trade_terminal[r].T
      ]_vars

RECURSIVE SumEntry(_, _)
SumEntry(orders, n) == IF n = 0 THEN 0 ELSE SumEntry(orders, n - 1) + orders[n].q_value.v

C5_EveryLegReadOnce ==
    HasEvent(tickLog, "fetch")
    => /\ \A i \in Legs : EventCount(tickLog, "readK", executed_orders[i].row) = 1
       /\ HasEvent(tickLog, "return")

\* a pass through the loop in which the totals were fetched and the stop-loss
\* test was made
EvaluatedTick == TickStep /\ pc' = "monitoring"

\* the first order, in list order, whose live premium lies in the band
FirstInBand ==
    CHOOSE i \in 1 .. Len(executed_orders') :
        /\ InBand(executed_orders'[i])
        /\ \A j \in 1 .. i - 1 : ~InBand(executed_orders'[j])

AnyInBand == \E i \in 1 .. Len(executed_orders') : InBand(executed_orders'[i])

\* C11: on a pass without premium breach, when some order's live premium lies
\* in the band [1, 5] and the hour is before 14, the close marker is written to
\* the row of the first such order and write_position is called for the
\* opposite option type; from hour 14 on the same premiums cause no write.
C11_DistressBandClosesFirst ==
    /\ [][(EvaluatedTick /\ ~Breach(k_total', stoploss_value') /\ DistressHolds)
          => /\ trade_terminal'[executed_orders'[FirstInBand].row].T = "True_Market"
             /\ last_write'.calls = last_write.calls + 1
             /\ last_write'.option_type = Opposite(executed_orders'[FirstInBand].option_type)
         ]_vars
    /\ [][(EvaluatedTick /\ ~Breach(k_total', stoploss_value') /\ AnyInBand
           /\ now'.hour >= EARLY_EXIT_HOUR)
          => /\ trade_terminal' = trade_terminal
             /\ last_write' = last_write
         ]_vars

TypeCount(orders, option_type) ==
    Cardinality({i \in 1 .. Len(orders) : orders[i].option_type = option_type})

\* C14: whenever monitor_positions is entered the list of orders holds exactly
\* one CALL leg and exactly one PUT leg.
C14_StraddleAtEntry ==
    pc = "monitor_init"
    => /\ TypeCount(executed_orders, "CALL") = 1
       /\ TypeCount(executed_orders, "PUT") = 1

\* no order's Q cell holds a string that is not a number
NoTextEntryCell == \A i \in Legs : trade_terminal[executed_orders[i].row].Q.t # "text"

\* C16: a pass in which a read of the store fails (the read of K8 or a read of
\* an order's Q or K cell) treats the value as absent and the loop goes on: the
\* pass ends in the monitoring state.  Passes on a non-numeric Q cell are left
\* out (they are the subject of C20).
C16_ReadFaultKeepsLooping ==
    [][(TickStep /\ HasEvent(tickLog', "readK8") /\ NoTextEntryCell)
       => pc' = "monitoring"
      ]_vars

\* C20: a Q cell holding a string that is not a number is never taken as an
\* order's entry premium, and no call of fetch_qk_values raises: the only
\* exceptions of a pass are those of the store (K8, row 8; a T write, row 0).
C20_NonNumericEntryRejected ==
    /\ \A i \in Legs : executed_orders[i].q_value.t # "text"
    /\ \A n \in 1 .. Len(tickLog) : tickLog[n].e = "raise" => tickLog[n].row \in {0, 8}

\* the search for a replacement of order i (opposite type, the order's live
\* premium as target) finds no row
ReplacementNotFound(i) ==
    write_position(trade_terminal, option_chain_output, executed_orders'[i].k_value,
                   Opposite(executed_orders'[i].option_type)).outcome = "none"

TriggerFires == Breach(k_total', stoploss_value') \/ DistressHolds

\* the order a trigger selects: for the breach the first order with the largest
\* live premium (max keeps the first of equals), for the band the first order
\* inside it
SelectedLeg ==
    IF Breach(k_total', stoploss_value')
    THEN CHOOSE i \in MaxLiveLegs : \A j \in MaxLiveLegs : i <= j
    ELSE FirstInBand

\* C12: on a pass whose trigger selects an order whose row already carries the
\* close marker, no close marker is written and write_position is not called
\* (no replacement); and no pass writes the close marker twice to one row.
C12_ClosedLegNotClosedAgain ==
    /\ [][(EvaluatedTick /\ TriggerFires
           /\ trade_terminal[executed_orders'[SelectedLeg].row].T = "True_Market")
          => /\ closeWrites' = closeWrites
             /\ trade_terminal' = trade_terminal
             /\ last_write' = last_write
             /\ Len(executed_orders') = Len(executed_orders)
         ]_vars
    /\ [][\A r \in Rows : closeWrites'[r] <= closeWrites[r] + 1]_vars

\* C12 witness: a breach has just been found while the row of the first order
\* with the largest live premium already carried the close marker, and nothing
\* has been written to it
C12_Witness ==
    /\ pc = "monitoring"
    /\ HasEvent(tickLog, "breach")
    /\ \E i \in Legs :
         /\ \A j \in Legs : executed_orders[j].k_value.v <= executed_orders[i].k_value.v
         /\ \A j \in 1 .. i - 1 : executed_orders[j].k_value.v < executed_orders[i].k_value.v
         /\ trade_terminal[executed_orders[i].row].T = "True_Market"
         /\ closeWrites[executed_orders[i].row] = 0
    /\ Len(executed_orders) = 2

\* C17: after an exception has left a pass of monitor_positions (or its first
\* fetch) the function is in the failed state, which is not the squared-off
\* state, and from then on no pass runs: nothing is read, no stop-loss test is
\* made, no cell is written and write_position is not called; rows that had no
\* close marker keep none.
C17_FaultEndsMonitoring ==
    /\ [](HasEvent(tickLog, "raise") => pc = "failed")
    /\ [][pc = "failed"
          => /\ pc' = "failed"
             /\ tickLog' = tickLog
             /\ trade_terminal' = trade_terminal
             /\ closeWrites' = closeWrites
             /\ last_write' = last_write
             /\ executed_orders' = executed_orders
             /\ << q_total', k_total', stoploss_value' >> = << q_total, k_total, stoploss_value >>
         ]_vars
    /\ [][(pc = "monitoring" /\ pc' = "failed" /\ ~HasEvent(tickLog', "squareoff"))
          => /\ closeWrites' = closeWrites
             /\ \A r \in Rows : trade_terminal'[r].T = trade_terminal[r].T
             /\ ~HasEvent(tickLog', "trigger")
         ]_vars

\* C17 witness: the loop has ended on an exception raised in a pass, with two
\* orders open and no close marker written
C17_Witness ==
    /\ pc = "failed"
    /\ Len(executed_orders) = 2
    /\ HasEvent(tickLog, "time")
    /\ HasEvent(tickLog, "raise")
    /\ \A r \in Rows : closeWrites[r] = 0 /\ trade_terminal[r].T = ""

\* the positions of event e in the latest pass
Idx(e) == {n \in 1 .. Len(tickLog) : tickLog[n].e = e}
AggregationEvents == {"readK8", "fetch", "readQ", "readK", "return"}

\* C18: in every pass the clock is read and the square-off test made first;
\* the reads of the fetch all come before the stop-loss test, which is made at
\* most once and only after the fetch has returned; a close write comes after
\* the test that caused it (the square-off test, or the stop-loss test); and
\* the T writes of a pass are exactly its logged close writes.
C18_PassOrder ==
    /\ [](\A n \in Idx("time") : n = 1)
    /\ [](\A n \in Idx("trigger") :
            /\ Idx("time") # {}
            /\ \E m \in Idx("return") : m < n
            /\ \A m \in 1 .. Len(tickLog) : tickLog[m].e \in AggregationEvents => m < n)
    /\ [](Cardinality(Idx("trigger")) <= 1)
    /\ [](\A m \in Idx("closeT") :
            /\ \E n \in Idx("squareoff") \cup Idx("trigger") : n < m
            /\ \A n \in Idx("time") \cup Idx("squareoff") \cup Idx("trigger") : n < m)
    /\ [][\A r \in Rows :
            closeWrites'[r] = closeWrites[r]
               + (IF pc = "monitoring" THEN EventCount(tickLog', "closeT", r) ELSE 0)
         ]_vars

\* C18 witness: a pass with two orders that made the square-off test, fetched
\* the totals, made the stop-loss test and took the breach branch
C18_Witness ==
    /\ pc = "monitoring"
    /\ Len(executed_orders) = 2
    /\ Idx("time") # {}
    /\ Idx("return") # {}
    /\ Idx("trigger") # {}
    /\ Idx("breach") # {}

\* C19: on every pass that makes the stop-loss test, the stop-loss is 1.001 x
\* the entry total returned by the fetch of that pass (the sum of the orders'
\* entry premiums as that fetch left them), and the breach branch is taken
\* exactly when the live total of that fetch exceeds it.
C19_BaselineOfThisPass ==
    [][EvaluatedTick
       => /\ q_total' = SumEntry(executed_orders', Len(executed_orders'))
          /\ stoploss_value' = q_total' * STOPLOSS_MILLI
          /\ HasEvent(tickLog', "breach") <=> k_total' * 1000 > q_total' * STOPLOSS_MILLI
      ]_vars

\* C19 witness: a pass has found a breach against a stop-loss made from an
\* entry total other than 0
C19_Witness ==
    /\ pc = "monitoring"
    /\ Idx("time") # {}
    /\ Idx("breach") # {}
    /\ q_total > 0
    /\ stoploss_value = q_total * STOPLOSS_MILLI
    /\ k_total * 1000 > stoploss_value

\* the wait for the current order's Q cell is over: a value has been read or
\* per_order_timeout has elapsed
WaitDone == poll.q_value.t # "none" \/ poll.elapsed >= PER_ORDER_TIMEOUT_MS

\* C15: every call of fetch_qk_values ends (returns, or raises); the wait for
\* an order's Q cell never lasts beyond the timeout plus one sleep; once a
\* value has been read or the timeout has elapsed the next step of the call
\* leaves the loop without a further read or sleep; a wait left without a
\* value has lasted the whole timeout and gives the order entry premium 0,
\* adding nothing to q_total; and a call that returns has read every order's
\* Q cell at least once, whatever earlier calls found.
C15_FetchTerminates ==
    /\ (pc \in {"fetch_for", "fetch_while"}) ~> (pc \in {"fetch_returned", "fetch_raised"})
    /\ [](poll.elapsed < PER_ORDER_TIMEOUT_MS + POLL_SLEEP_MS)
    /\ [][(pc = "fetch_while" /\ WaitDone /\ trade_terminal' = trade_terminal)
          => /\ pc' # "fetch_while"
             /\ poll'.elapsed = poll.elapsed
             /\ \A r \in Rows : EventCount(tickLog', "readQ", r) = EventCount(tickLog, "readQ", r)
         ]_vars
    /\ [][(pc = "fetch_while" /\ pc' # "fetch_while" /\ poll.q_value.t = "none")
          => /\ poll.elapsed >= PER_ORDER_TIMEOUT_MS
             /\ executed_orders'[poll.order].q_value = Num(0)
             /\ q_total' = q_total
         ]_vars
    /\ [](pc = "fetch_returned"
          => \A i \in Legs : EventCount(tickLog, "readQ", executed_orders[i].row) >= 1)

\* C15 witness: a second call has returned in which one order's wait ran to
\* the timeout (a read for every sleep) and left entry premium 0, while the
\* other order's premium was read
C15_Witness ==
    /\ pc = "fetch_returned"
    /\ poll.calls > 1
    /\ \E i \in Legs :
         /\ executed_orders[i].q_value = Num(0)
         /\ EventCount(tickLog, "readQ", executed_orders[i].row) * POLL_SLEEP_MS
              >= PER_ORDER_TIMEOUT_MS
    /\ \E i \in Legs : executed_orders[i].q_value.v > 0

\* a step of monitor_positions in which fetch_qk_values was called, whether it
\* returned or raised
FetchCalled ==
    /\ pc \in {"monitor_init", "monitoring"}
    /\ CellsKept
    /\ HasEvent(tickLog', "fetch")

\* C21: a call of fetch_qk_values, returning or raising, leaves the list of
\* orders with the same members in the same order, each differing from before
\* in its q_value and k_value at most (row, option_symbol, option_type,
\* lot_size and buy_or_sell are kept), and writes no cell of either sheet.
C21_FetchFrame ==
    [][FetchCalled
       => /\ Len(executed_orders') = Len(executed_orders)
          /\ \A i \in Legs :
               /\ executed_orders'[i].row = executed_orders[i].row
               /\ executed_orders'[i].option_symbol = executed_orders[i].option_symbol
               /\ executed_orders'[i].option_type = executed_orders[i].option_type
               /\ executed_orders'[i].lot_size = executed_orders[i].lot_size
               /\ executed_orders'[i].buy_or_sell = executed_orders[i].buy_or_sell
               /\ DOMAIN executed_orders'[i] = DOMAIN executed_orders[i]
          /\ trade_terminal' = trade_terminal
          /\ option_chain_output' = option_chain_output
          /\ closeWrites' = closeWrites
          /\ last_write' = last_write
      ]_vars

\* C21 witness: a call on two orders has returned and has given both a new
\* entry premium and the first a new live premium; the orders are still the
\* CALL and the PUT leg on the rows whose A cell carries their symbol
C21_Witness ==
    /\ pc = "monitoring"
    /\ HasEvent(tickLog, "return")
    /\ Len(executed_orders) = 2
    /\ executed_orders[1].option_type = "CALL"
    /\ executed_orders[2].option_type = "PUT"
    /\ executed_orders[1].row < executed_orders[2].row
    /\ \A i \in Legs :
         /\ trade_terminal[executed_orders[i].row].A = executed_orders[i].option_symbol
         /\ executed_orders[i].q_value.v > 0
    /\ executed_orders[1].k_value.v > 0

\* every order's Q cell is empty, and stays so through the pass
NoEntryCellSet == \A i \in Legs : trade_terminal[executed_orders[i].row].Q.t = "none"

\* C22: on a pass that makes the stop-loss test while every order's Q cell is
\* empty, every order's entry premium is 0, q_total and the stop-loss are both
\* 0, and the breach branch is taken exactly when k_total is greater than 0.
C22_UnsetEntriesBreach ==
    [][(EvaluatedTick /\ NoEntryCellSet)
       => /\ \A i \in Legs : executed_orders'[i].q_value = Num(0)
          /\ q_total' = 0
          /\ stoploss_value' = 0
          /\ HasEvent(tickLog', "breach") <=> k_total' > 0
      ]_vars

\* C22 witness: a pass with two orders whose Q cells are both empty has taken
\* the breach branch against a stop-loss of 0
C22_Witness ==
    /\ pc = "monitoring"
    /\ Len(executed_orders) = 2
    /\ NoEntryCellSet
    /\ \A i \in Legs : executed_orders[i].q_value = Num(0)
    /\ Idx("time") # {}
    /\ Idx("breach") # {}
    /\ q_total = 0
    /\ stoploss_value = 0
    /\ k_total > 0

====
